---- MODULE Spec2Model ----
(***************************************************************************)
(* Circular aperture photometry on HEALPix maps (src/haperflux.py).        *)
(*                                                                         *)
(* The file is Python 2 (print statements), so `/' between two ints is     *)
(* floor division and numpy is a release whose np.delete ignores indices   *)
(* that are out of bounds.  Statements are modelled in their textual       *)
(* order; the blocks that the file indents one level too deep (lines       *)
(* 149-178 and 357-383) are read as part of the enclosing function body.   *)
(*                                                                         *)
(* Numbers.  Real-valued quantities are kept exact:                        *)
(*   - a rational is a pair <<n, d>> in lowest terms, d > 0;               *)
(*   - a pixel solid angle <<n, d>> stands for (n/d)*pi steradian;         *)
(*   - a conversion factor is a record [q, K, pi, corr] that stands for    *)
(*       q * RJ(K) * pi^pi / planckcorr(corr)                              *)
(*     with RJ(f) = 2.*1381.*(f*1.0e9)**2/(2.997e8)**2, RJ(0) read as 1    *)
(*     and planckcorr(0) read as 1.                                        *)
(* Optional arguments: None is <<>>, a supplied value v is <<v>>.          *)
(***************************************************************************)
EXTENDS Integers, Sequences, FiniteSets, TLC

VARIABLES
    cj,          \* the last direct call of convertToJy and its outcome
    argc,        \* len(sys.argv) of the process
    hres,        \* the last direct call of haperflux and its outcome
    inputlist,   \* healpix_phot: the target table (one centre per target)
    maplist,     \* healpix_phot: the maps of the map list (data and header)
    radius,      \* healpix_phot: argument radius (None or a number)
    rinner,      \* healpix_phot: argument rinner
    router,      \* healpix_phot: argument router
    galactic,    \* healpix_phot: argument galactic
    pc,          \* healpix_phot: position of the run
    ct,          \* healpix_phot: target loop index
    ct2,         \* healpix_phot: map loop index
    radval,      \* healpix_phot: local radval of the current map
    fd_all,      \* healpix_phot: result table of fluxes
    fd_err_all,  \* healpix_phot: result table of errors
    fd_bg_all,   \* healpix_phot: result table of backgrounds
    calls        \* healpix_phot: the haperflux calls made so far, in order

vars == <<cj, argc, hres, inputlist, maplist, radius, rinner, router, galactic,
          pc, ct, ct2, radval, fd_all, fd_err_all, fd_bg_all, calls>>

batchVars == <<inputlist, maplist, radius, rinner, router, galactic,
               pc, ct, ct2, radval, fd_all, fd_err_all, fd_bg_all, calls>>

----------------------------------------------------------------------------
(* Python values *)

None == <<>>

Some(v) == <<v>>

Val(o) == o[1]

RECURSIVE Gcd(_, _)
Gcd(a, b) == IF b = 0 THEN a ELSE Gcd(b, a % b)

Abs(x) == IF x < 0 THEN -x ELSE x

Rat(n, d) ==
    LET g == Gcd(Abs(n), Abs(d))
        s == IF d < 0 THEN -1 ELSE 1
    IN  <<(s * n) \div g, (s * d) \div g>>

RatMul(a, b) == Rat(a[1] * b[1], a[2] * b[2])

RatDiv(a, b) == Rat(a[1] * b[2], a[2] * b[1])

----------------------------------------------------------------------------
(* Names bound at module level: the four def statements of the file. *)
GlobalNames_typo == {"planckcorr", "convertToJy", "healpix_phot", "haperflux", "covnertToJy"}

GlobalNames == {"planckcorr", "convertToJy", "healpix_phot", "haperflux"}

----------------------------------------------------------------------------
(* convertToJy, lines 135-178 *)

K_RJ_labels == {"K", "K_RJ", "KRJ"}

mK_RJ_labels == {"mK", "mK_RJ", "mKRJ"}

uK_RJ_labels == {"uK", "uK_RJ", "uKRJ"}

K_CMB_labels == {"K_CMB", "KCMB"}

mK_CMB_labels == {"mK_CMB", "mKCMB"}

uK_CMB_labels == {"uK_CMB", "uKCMB"}

MJy_sr_labels == {"MJy/sr", "MJY/SR", "MjySr"}

Jy_pixel_labels == {"Jy/pixel", "JY/PIXEL", "JY/PIX", "JyPix"}

average_labels == {"average", "avg", "Average", "AVG"}

SupportedLabels ==
    K_RJ_labels \cup mK_RJ_labels \cup uK_RJ_labels \cup K_CMB_labels
        \cup mK_CMB_labels \cup uK_CMB_labels \cup MJy_sr_labels
        \cup Jy_pixel_labels \cup average_labels

\* factor = 1.0 (line 147, line 171)
One == [q |-> <<1, 1>>, K |-> 0, pi |-> 0, corr |-> 0]

\* 2.*1381.*(thisfreq*1.0e9)**2/(2.997e8)**2 * pix_area
RJ(thisfreq, pix_area) == [q |-> pix_area, K |-> thisfreq, pi |-> 1, corr |-> 0]

\* f / d for a number d
FDiv(f, d) == [f EXCEPT !.q = RatDiv(@, <<d, 1>>)]

\* f * m for a number m
FMul(f, m) == [f EXCEPT !.q = RatMul(@, <<m, 1>>)]

\* f / planckcorr(thisfreq), lines 127-132: the correction depends on thisfreq only
FDivPlanck(f, thisfreq) == [f EXCEPT !.corr = thisfreq]

milli_wrong == 1000 * 1000

milli == 1000

micro == 1000000

mega == 1000000

Msg_both == "Only one of npix or pix_area should be specified! Proceeding with npix."

Msg_invalid == "Invalid units specified! "

\* The value of the local pix_area after lines 140-145 (None when line 145 raises).
PixArea(npix, pix_area) ==
    IF pix_area = None
    THEN IF npix = None THEN None ELSE Some(Rat(4, Val(npix)))
    ELSE pix_area

convertToJy(units, thisfreq, npix, pix_area) ==
    LET printed1 == IF pix_area # None /\ npix # None THEN <<Msg_both>> ELSE <<>>
        area     == PixArea(npix, pix_area)
        base     == [units |-> units, thisfreq |-> thisfreq, npix |-> npix,
                     pix_area_arg |-> pix_area, pix_area |-> area]
        ret(f)   == base @@ [outcome |-> "returned", printed |-> printed1, factor |-> Some(f)]
    IN  IF area = None
        THEN \* line 145: 4.*np.pi / None
             base @@ [outcome |-> "TypeError", printed |-> printed1, factor |-> None]
        ELSE CASE units \in K_RJ_labels    -> ret(RJ(thisfreq, Val(area)))
               [] units \in mK_RJ_labels   -> ret(FDiv(RJ(thisfreq, Val(area)), milli))
               [] units \in uK_RJ_labels   -> ret(FDiv(RJ(thisfreq, Val(area)), micro))
               [] units \in K_CMB_labels   -> ret(FDivPlanck(RJ(thisfreq, Val(area)), thisfreq))
               [] units \in mK_CMB_labels  ->
                      ret(FDivPlanck(FDiv(RJ(thisfreq, Val(area)), milli), thisfreq))
               [] units \in uK_CMB_labels  ->
                      ret(FDivPlanck(FDiv(RJ(thisfreq, Val(area)), micro), thisfreq))
               [] units \in MJy_sr_labels  ->
                      ret([q |-> RatMul(Val(area), <<mega, 1>>), K |-> 0, pi |-> 1, corr |-> 0])
               [] units \in Jy_pixel_labels -> ret(One)
               [] units \in average_labels ->
                      \* line 174 reads ninnerpix, which is no local and no global name
                      IF "ninnerpix" \in GlobalNames
                      THEN ret(One)
                      ELSE base @@ [outcome |-> "NameError", printed |-> printed1,
                                    factor |-> None]
               [] OTHER ->
                      \* lines 175-178: a message, then return factor (still 1.0)
                      base @@ [outcome |-> "returned",
                               printed |-> printed1 \o <<Msg_invalid>>,
                               factor |-> Some(One)]

----------------------------------------------------------------------------
(* numpy and healpy operations used by haperflux.  A numpy array is a      *)
(* sequence; Python position i is sequence index i + 1.  A map is a        *)
(* function on 0 .. len-1.                                                 *)

\* hp.UNSEEN, -1.6375e+30, in units of 1e+26
UNSEEN == -16375

Range(s) == {s[i] : i \in DOMAIN s}

MapLen(m) == Cardinality(DOMAIN m)

RECURSIVE SortedSeq(_)
SortedSeq(S) ==
    IF S = {} THEN <<>>
    ELSE LET m == CHOOSE x \in S : \A y \in S : x <= y
         IN  <<m>> \o SortedSeq(S \ {m})

RECURSIVE DeleteFrom(_, _, _)
DeleteFrom(arr, positions, i) ==
    IF i > Len(arr) THEN <<>>
    ELSE (IF (i - 1) \in positions THEN <<>> ELSE <<arr[i]>>)
             \o DeleteFrom(arr, positions, i + 1)

\* np.delete(arr, obj): the elements of arr at the POSITIONS listed in obj are
\* removed; positions outside 0 .. len(arr)-1 are ignored (with a warning).
NpDelete(arr, obj) == DeleteFrom(arr, Range(obj), 1)

\* np.where(hmap[pix] == hp.UNSEEN): the positions in pix of the sentinel pixels
WhereUnseen(hmap, pix) ==
    SortedSeq({i - 1 : i \in {j \in DOMAIN pix : hmap[pix[j]] = UNSEEN}})

RECURSIVE SumAt(_, _, _)
SumAt(hmap, pix, i) ==
    IF i > Len(pix) THEN 0 ELSE hmap[pix[i]] + SumAt(hmap, pix, i + 1)

\* np.sum(hmap[pix])
NpSum(hmap, pix) == SumAt(hmap, pix, 1)

RECURSIVE InsertSorted(_, _)
InsertSorted(v, s) ==
    IF s = <<>> THEN <<v>>
    ELSE IF v <= Head(s) THEN <<v>> \o s
    ELSE <<Head(s)>> \o InsertSorted(v, Tail(s))

RECURSIVE SortedValues(_, _, _)
SortedValues(hmap, pix, i) ==
    IF i > Len(pix) THEN <<>>
    ELSE InsertSorted(hmap[pix[i]], SortedValues(hmap, pix, i + 1))

\* twice np.median(hmap[pix]) for a non-empty pix (the median of an even number
\* of values is the mean of the two middle ones)
NpMedian2(hmap, pix) ==
    LET v == SortedValues(hmap, pix, 1)
        n == Len(v)
    IN  IF n % 2 = 1 THEN 2 * v[(n + 1) \div 2]
        ELSE v[n \div 2] + v[n \div 2 + 1]

\* Distance of two pixels of an iso-latitude ring of n pixels.
RingDist(p, c, n) ==
    LET d == Abs(p - c) IN IF d <= n - d THEN d ELSE n - d

\* hp.query_disc(nside, vec0, radius): the pixels of the 12*nside**2 whose centre
\* lies within radius of the target, in increasing order, no duplicates.  The sky
\* is one ring; a radius is counted in pixel spacings (lines 273-275 scale the
\* three radii by the same positive constant).
query_disc(nside, centre, rad) ==
    LET n == 12 * nside * nside
    IN  SortedSeq({p \in 0 .. n - 1 : RingDist(p, centre % n, n) < rad})

\* np.sqrt(k) for an int k: <<TRUE, r>> when k = r*r, else the root is no integer
IntSqrt(k) ==
    IF \E r \in 0 .. k : r * r = k
    THEN <<TRUE, CHOOSE r \in 0 .. k : r * r = k>>
    ELSE <<FALSE, 0>>

----------------------------------------------------------------------------
(* haperflux, lines 247-389 *)

\* The record of one call: its arguments, how far it got, and what it produced.
\* fd2 and bg2 are twice fd and twice fd_bg_scaled, in units of factor.
HaperBase(inmap, freq, centre, res_arcmin, r_in, r_out1, r_out2, units, noise_model) ==
    [called |-> TRUE, inmap |-> inmap, freq |-> freq, centre |-> centre,
     res_arcmin |-> res_arcmin, aper_inner_radius |-> r_in,
     aper_outer_radius1 |-> r_out1, aper_outer_radius2 |-> r_out2,
     units |-> units, noise_model |-> noise_model,
     outcome |-> "SystemExit", line |-> 257,
     nside |-> None, npix |-> None, queried |-> FALSE,
     disc0 |-> <<>>, disc1 |-> <<>>, disc2 |-> <<>>,
     innerpix |-> <<>>, outerpix1 |-> <<>>, outerpix2 |-> <<>>,
     nan_assigned |-> FALSE, annulus |-> FALSE, bgpix |-> <<>>, nbgpix |-> 0,
     factor |-> None, fd2 |-> None, bg2 |-> None, fd_err |-> None]

haperflux(sys_argv_len, inmap, freq, centre, res_arcmin, r_in, r_out1, r_out2, units, noise_model) ==
    LET base == HaperBase(inmap, freq, centre, res_arcmin, r_in, r_out1, r_out2,
                          units, noise_model)
        hmap == inmap
        \* line 294: len(hmap)/12 is int/int, then np.sqrt
        root == IntSqrt(MapLen(hmap) \div 12)
        nside == root[2]
        npix == 12 * nside * nside
        \* lines 311-318
        innerpix0  == query_disc(nside, centre, r_in)
        outerpix10 == query_disc(nside, centre, r_out1)
        outerpix20 == query_disc(nside, centre, r_out2)
        \* lines 324-335
        innerpix_masked  == NpDelete(innerpix0, WhereUnseen(hmap, innerpix0))
        outerpix1_masked == NpDelete(outerpix10, WhereUnseen(hmap, outerpix10))
        outerpix2_masked == NpDelete(outerpix20, WhereUnseen(hmap, outerpix20))
        ninnerpix  == Len(innerpix_masked)
        nouterpix1 == Len(outerpix1_masked)
        nouterpix2 == Len(outerpix2_masked)
        \* line 351
        bgpix == NpDelete(outerpix2_masked, outerpix1_masked)
        nbgpix == Len(bgpix)
        q == [base EXCEPT !.nside = Some(nside), !.npix = Some(npix), !.queried = TRUE,
                          !.disc0 = innerpix0, !.disc1 = outerpix10, !.disc2 = outerpix20,
                          !.innerpix = innerpix_masked, !.outerpix1 = outerpix1_masked,
                          !.outerpix2 = outerpix2_masked]
        a == [q EXCEPT !.annulus = TRUE, !.bgpix = bgpix, !.nbgpix = nbgpix]
        \* line 355: the callee is looked up under the name covnertToJy
        conv == convertToJy(units, freq, Some(npix), None)
    IN  IF sys_argv_len > 8
        THEN base
        ELSE IF (~root[1]) \/ (nside % 2 # 0)
        THEN [base EXCEPT !.line = 299]
        ELSE IF (ninnerpix = 0) \/ (nouterpix1 = 0) \/ (nouterpix2 = 0)
        THEN \* lines 341-343: fd = fd_err = nan, then exit()
             [q EXCEPT !.nan_assigned = TRUE, !.line = 343]
        ELSE IF "covnertToJy" \notin GlobalNames
        THEN [a EXCEPT !.outcome = "NameError", !.line = 355]
        ELSE IF conv.outcome # "returned"
        THEN [a EXCEPT !.outcome = conv.outcome, !.line = 355]
        ELSE IF noise_model = 0
        THEN \* line 373 reads pix_area, which is no local and no global name
             [a EXCEPT !.outcome = "NameError", !.line = 373, !.factor = conv.factor]
        ELSE IF noise_model = 1 /\ nbgpix = 0
        THEN \* line 383: float(ninnerpix)**2/nbgpix
             [a EXCEPT !.outcome = "ZeroDivisionError", !.line = 383,
                       !.factor = conv.factor]
        ELSE \* lines 358-369 and 383, line 389
             [a EXCEPT !.outcome = "returned", !.line = 389, !.factor = conv.factor,
                       !.fd2 = Some(2 * NpSum(hmap, innerpix_masked)
                                    - NpMedian2(hmap, bgpix) * ninnerpix),
                       !.bg2 = Some(NpMedian2(hmap, bgpix) * ninnerpix),
                       !.fd_err = Some("finite")]

----------------------------------------------------------------------------
(* Inputs *)

MaxRadius == 3

MaxBad == 2

\* Map lengths: 48 = 12*2*2 is the one standard length among them.
Lens == {12, 24, 48, 49, 59}

Centres == {0, 5}

\* Pixels that may hold the sentinel, and pixels that may hold a second value.
BadPool == {0, 5, 6}

HotPool == {3, 7}

FlatValue == 3

HotValue == 5

Freqs == {30, 100}

MakeMap(len, bad, hot) ==
    [p \in 0 .. len - 1 |->
        IF p \in bad THEN UNSEEN ELSE IF p \in hot THEN HotValue ELSE FlatValue]

Maps ==
    {MakeMap(len, bad, hot) :
        len \in Lens,
        bad \in {b \in SUBSET BadPool : Cardinality(b) <= MaxBad},
        hot \in {{}} \cup {{h} : h \in HotPool}}

NotCalled == [called |-> FALSE]

NoBatch ==
    /\ inputlist = <<>> /\ maplist = <<>> /\ radius = None /\ rinner = 0
    /\ router = 0 /\ galactic = TRUE /\ pc = "idle" /\ ct = 0 /\ ct2 = 0
    /\ radval = None /\ fd_all = <<>> /\ fd_err_all = <<>> /\ fd_bg_all = <<>>
    /\ calls = <<>>

----------------------------------------------------------------------------
(* Direct calls of convertToJy *)

UnitLabels == SupportedLabels \cup {"Jy", "mK_rj", ""}

NpixArgs == {None, Some(12), Some(48)}

PixAreaArgs == {None, Some(<<1, 12>>), Some(<<1, 3>>)}

InitConvert ==
    /\ cj = NotCalled
    /\ hres = NotCalled
    /\ argc = 1
    /\ NoBatch

CallConvertToJy ==
    /\ \E units \in UnitLabels, thisfreq \in Freqs, npix \in NpixArgs,
          pix_area \in PixAreaArgs :
          cj' = [called |-> TRUE] @@ convertToJy(units, thisfreq, npix, pix_area)
    /\ UNCHANGED <<argc, hres>>
    /\ UNCHANGED batchVars

NextConvert == CallConvertToJy

SpecConvert == InitConvert /\ [][NextConvert]_vars

----------------------------------------------------------------------------
(* Direct calls of haperflux *)

InitAper ==
    /\ cj = NotCalled
    /\ hres = NotCalled
    /\ argc \in {1, 9}
    /\ NoBatch

CallHaperflux ==
    /\ hres = NotCalled
    /\ \E inmap \in Maps, centre \in Centres, units \in {"Jy/pixel", "K_RJ"},
          r_in \in 0 .. MaxRadius, r_out1 \in 0 .. MaxRadius, r_out2 \in 0 .. MaxRadius,
          noise_model \in {0, 1} :
          hres' = haperflux(argc, inmap, 100, centre, r_in, r_in, r_out1, r_out2,
                            units, noise_model)
    /\ UNCHANGED <<argc, cj>>
    /\ UNCHANGED batchVars

NextAper == CallHaperflux

SpecAper == InitAper /\ [][NextAper]_vars

----------------------------------------------------------------------------
(* healpix_phot, lines 180-243 *)

\* A header value FREQ is an int or a float with an integral value; str() of it
\* is its digits, followed by ".0" for a float.
Str(freq) == <<freq.val, IF freq.kind = "float" THEN ".0" ELSE "">>

\* int(freq), line 217
IntOf(freq) == freq.val

freqlist ==
    << <<30, "">>, <<44, "">>, <<70, "">>, <<100, "">>, <<143, "">>, <<217, "">>,
       <<353, "">>, <<545, "">>, <<857, "">>, <<1874, "">>, <<2141, "">>,
       <<2998, "">>, <<3331, "">>, <<4612, "">>, <<4997, "">>, <<11992, "">>,
       <<16655, "">>, <<24983, "">>, <<33310, "">> >>

\* fwhm in units of 0.0001 arcmin
fwhmlist ==
    <<331587, 280852, 130812, 98800, 71800, 48700, 46500, 47200, 43900, 8600,
      8600, 43000, 8600, 8600, 40000, 38000, 8600, 38000, 8600>>

\* freqlist.index(x): the first position holding x (the caller checks membership)
Index(list, x) == CHOOSE i \in DOMAIN list : list[i] = x /\ \A j \in 1 .. i - 1 : list[j] # x

\* A table cell holds a plain number or a flux (fd2: twice the value in units of
\* factor, times apcor when apcor is not None).
Num(n) == [kind |-> "num", n |-> n]

Flux(v2, factor, ap) == [kind |-> "flux", v2 |-> v2, factor |-> factor, apcor |-> ap]

\* np.isfinite of a returned error
IsFinite(err) == err = Some("finite")

ns == Len(inputlist)

nmaps == Len(maplist)

Cells == (0 .. ns - 1) \X (0 .. nmaps - 1)

\* lines 188-208
healpix_phot_begin ==
    /\ pc = "begin"
    /\ IF radius = None
       THEN \* line 189: rinner/None
            pc' = "TypeError" /\ UNCHANGED <<fd_all, fd_err_all, fd_bg_all>>
       ELSE IF Val(radius) = 0
       THEN pc' = "ZeroDivisionError" /\ UNCHANGED <<fd_all, fd_err_all, fd_bg_all>>
       ELSE IF rinner \div Val(radius) = 0 /\ router \div Val(radius) = 1
       THEN \* line 191: (15/16 - (1 - 1/16)) ** (-1)
            pc' = "ZeroDivisionError" /\ UNCHANGED <<fd_all, fd_err_all, fd_bg_all>>
       ELSE IF ~galactic
       THEN \* line 198 reads targets, which only line 196 binds
            pc' = "NameError" /\ UNCHANGED <<fd_all, fd_err_all, fd_bg_all>>
       ELSE /\ pc' = "maps"
            /\ fd_all' = [c \in Cells |-> Num(0)]
            /\ fd_err_all' = [c \in Cells |-> Num(0)]
            /\ fd_bg_all' = [c \in Cells |-> Num(0)]
    /\ ct2' = 0
    /\ UNCHANGED <<cj, argc, hres, inputlist, maplist, radius, rinner, router, galactic,
                   ct, radval, calls>>

\* lines 211-222: one pass of the map loop up to the target loop
healpix_phot_map ==
    /\ pc = "maps"
    /\ ct2 < nmaps
    /\ LET freq == maplist[ct2 + 1].FREQ
       IN  IF ~(\E i \in DOMAIN freqlist : freqlist[i] = Str(freq))
           THEN \* line 216
                pc' = "ValueError" /\ UNCHANGED radval
           ELSE /\ pc' = "targets"
                /\ radval' = IF radius = None
                             THEN Some(fwhmlist[Index(freqlist, Str(freq))])
                             ELSE radius
    /\ ct' = 0
    /\ UNCHANGED <<cj, argc, hres, inputlist, maplist, radius, rinner, router, galactic,
                   ct2, fd_all, fd_err_all, fd_bg_all, calls>>

\* The call of lines 230-233: aper_inner_radius and res_arcmin are radius.
MeasureCall ==
    LET m == maplist[ct2 + 1]
    IN  IF radius = None
        THEN \* line 265: float(None)
             [HaperBase(m.data, IntOf(m.FREQ), inputlist[ct + 1], radius, radius,
                        rinner, router, m.TUNIT1, 0)
                 EXCEPT !.outcome = "TypeError", !.line = 265]
        ELSE haperflux(argc, m.data, IntOf(m.FREQ), inputlist[ct + 1], Val(radius),
                       Val(radius), rinner, router, m.TUNIT1, 0)

\* lines 225-241: one pass of the target loop
healpix_phot_target ==
    /\ pc = "targets"
    /\ ct < ns
    /\ LET r == MeasureCall
           cell == <<ct, ct2>>
           ap == IF radius = None THEN Some(<<rinner, router>>) ELSE None
       IN  /\ calls' = Append(calls, [r EXCEPT !.called = cell])
           /\ IF r.outcome # "returned"
              THEN \* SystemExit or an exception leaves healpix_phot
                   /\ pc' = r.outcome
                   /\ UNCHANGED <<ct, fd_all, fd_err_all, fd_bg_all>>
              ELSE /\ pc' = "targets"
                   /\ ct' = ct + 1
                   /\ fd_bg_all' = [fd_bg_all EXCEPT ![cell] = Flux(Val(r.bg2), r.factor, None)]
                   /\ IF ~IsFinite(r.fd_err)
                      THEN /\ fd_all' = [fd_all EXCEPT ![cell] = Num(-1)]
                           /\ fd_err_all' = [fd_err_all EXCEPT ![cell] = Num(-1)]
                      ELSE /\ fd_all' = [fd_all EXCEPT ![cell] = Flux(Val(r.fd2), r.factor, ap)]
                           /\ fd_err_all' = [fd_err_all EXCEPT ![cell] = Flux(1, r.factor, ap)]
    /\ UNCHANGED <<cj, argc, hres, inputlist, maplist, radius, rinner, router, galactic,
                   ct2, radval>>

\* the target loop of line 225 is exhausted: next pass of the map loop
healpix_phot_next_map ==
    /\ pc = "targets"
    /\ ct = ns
    /\ ct2' = ct2 + 1
    /\ pc' = "maps"
    /\ UNCHANGED <<cj, argc, hres, inputlist, maplist, radius, rinner, router, galactic,
                   ct, radval, fd_all, fd_err_all, fd_bg_all, calls>>

\* line 243
healpix_phot_return ==
    /\ pc = "maps"
    /\ ct2 = nmaps
    /\ pc' = "returned"
    /\ UNCHANGED <<cj, argc, hres, inputlist, maplist, radius, rinner, router, galactic,
                   ct, ct2, radval, fd_all, fd_err_all, fd_bg_all, calls>>

MaxMaps == 2

MaxTargets == 2

MaxBatchRadius == 2

RECURSIVE SeqsUpTo(_, _)
SeqsUpTo(S, n) ==
    IF n = 0 THEN {<<>>}
    ELSE LET shorter == SeqsUpTo(S, n - 1)
         IN  shorter \cup {Append(q, x) : q \in {t \in shorter : Len(t) = n - 1}, x \in S}

MapFiles ==
    [data : {MakeMap(48, {}, {}), MakeMap(48, {5}, {}), MakeMap(24, {}, {})},
     FREQ : {[kind |-> "int", val |-> 100], [kind |-> "float", val |-> 100]},
     TUNIT1 : {"Jy/pixel"}]

InitBatch ==
    /\ cj = NotCalled
    /\ hres = NotCalled
    /\ argc \in {1, 9}
    /\ inputlist \in SeqsUpTo(Centres, MaxTargets)
    /\ maplist \in SeqsUpTo(MapFiles, MaxMaps)
    /\ radius \in {None} \cup {Some(r) : r \in 0 .. MaxBatchRadius}
    /\ rinner \in 0 .. MaxBatchRadius
    /\ router \in 0 .. MaxBatchRadius
    /\ galactic \in BOOLEAN
    /\ pc = "begin"
    /\ ct = 0
    /\ ct2 = 0
    /\ radval = None
    /\ fd_all = <<>>
    /\ fd_err_all = <<>>
    /\ fd_bg_all = <<>>
    /\ calls = <<>>

NextBatch ==
    \/ healpix_phot_begin
    \/ healpix_phot_map
    \/ healpix_phot_target
    \/ healpix_phot_next_map
    \/ healpix_phot_return

SpecBatch == InitBatch /\ [][NextBatch]_vars

----------------------------------------------------------------------------
(* Properties *)

Errors == {"SystemExit", "NameError", "TypeError", "ZeroDivisionError", "ValueError"}

\* C1: once haperflux has computed the background annulus, its pixels are, compared
\* by pixel index value, the masked outer-2 pixels that are not masked outer-1
\* pixels, and nbgpix is the size of that difference.
C1_AnnulusIsSetDifference ==
    (hres.called /\ hres.annulus) =>
        /\ Range(hres.bgpix) = Range(hres.outerpix2) \ Range(hres.outerpix1)
        /\ hres.nbgpix = Cardinality(Range(hres.outerpix2) \ Range(hres.outerpix1))

\* C2: a (target, map) pair that fails for want of a non-sentinel pixel in one of
\* its three pixel sets does not end the run of healpix_phot: the run is never
\* left through the exit() of that measurement, and its cell carries the sentinel.
C2_BatchContinues ==
    \A i \in DOMAIN calls :
        calls[i].line = 343 =>
            /\ pc \notin Errors
            /\ fd_all[calls[i].called] = Num(-1)

\* C3: convertToJy called with a label outside the supported labels and aliases
\* returns no factor: the outcome is an error, never a number.
C3_NoFactorForUnknownLabel ==
    (cj.called /\ cj.units \notin SupportedLabels) =>
        (cj.outcome \in Errors /\ cj.factor = None)

\* C4: with radius None, healpix_phot does not fail, and every haperflux call it
\* makes is handed, as inner aperture radius, the nominal FWHM that the band table
\* gives for the map's frequency (radval).
C4_NominalRadiusUsed ==
    radius = None =>
        /\ pc \notin Errors
        /\ \A i \in DOMAIN calls : calls[i].aper_inner_radius = radval

C6_NpixPreferred ==
    (cj.called /\ cj.npix # None /\ cj.pix_area_arg # None) =>
        /\ cj.pix_area = Some(Rat(4, Val(cj.npix)))
        /\ Msg_both \in Range(cj.printed)

IsFlat(m) == \A p \in DOMAIN m : m[p] \in {UNSEEN, FlatValue}

\* C7: on a map whose non-sentinel pixels all hold FlatValue, with
\* inner <= outer1 <= outer2, a non-empty masked inner set and a non-empty annulus,
\* haperflux returns net flux 0 and scaled background FlatValue * factor * ninnerpix.
C7_FlatMapSubtracts ==
    (/\ hres.called
     /\ hres.queried
     /\ IsFlat(hres.inmap)
     /\ hres.aper_inner_radius <= hres.aper_outer_radius1
     /\ hres.aper_outer_radius1 <= hres.aper_outer_radius2
     /\ hres.innerpix # <<>>
     /\ Range(hres.outerpix2) \ Range(hres.outerpix1) # {}) =>
        /\ hres.outcome = "returned"
        /\ hres.fd2 = Some(0)
        /\ hres.bg2 = Some(2 * FlatValue * Len(hres.innerpix))

\* The factor convertToJy returns for K_RJ on the arguments of the last call.
FactorK_RJ == Val(convertToJy("K_RJ", cj.thisfreq, cj.npix, cj.pix_area_arg).factor)

\* C8 (as claimed): the factor returned for mK_RJ is 1000 times the factor
\* returned for K_RJ with the same frequency and pixel count.
C8_MilliIsThousandTimes ==
    (cj.called /\ cj.units = "mK_RJ" /\ cj.outcome = "returned") =>
        cj.factor = Some(FMul(FactorK_RJ, 1000))

\* C8 (amended): the factor returned for mK_RJ is the factor returned for K_RJ with
\* the same frequency and pixel count, divided by 1000.
C8_MilliIsThousandth ==
    (cj.called /\ cj.units = "mK_RJ" /\ cj.outcome = "returned") =>
        cj.factor = Some(FDiv(FactorK_RJ, 1000))

C8_Witness ==
    /\ cj.called
    /\ cj.units = "mK_RJ"
    /\ cj.outcome = "returned"
    /\ cj.npix = Some(48)
    /\ cj.pix_area_arg = None
    /\ cj.factor = Some([q |-> <<1, 12000>>, K |-> 100, pi |-> 1, corr |-> 0])

StandardLen(len) == \E N \in 0 .. len : N % 2 = 0 /\ 12 * N * N = len

\* C10: haperflux exits before any disc query for every map whose length is not
\* 12*N*N for an even N, and whenever the disc queries are made the pixel count
\* npix equals the length of the map.
C10_ResolutionCheck ==
    hres.called =>
        /\ ~StandardLen(MapLen(hres.inmap)) =>
               (hres.outcome = "SystemExit" /\ ~hres.queried)
        /\ hres.queried => Val(hres.npix) = MapLen(hres.inmap)

====
